---------------------------- MODULE Spec2Model ----------------------------
(***************************************************************************)
(* The event aggregator of internal/events/aggregator.go.                  *)
(*                                                                         *)
(* The aggregator consumes the persisted event log in batches, joins       *)
(* data-arrived and message-sequenced events on the message they refer to, *)
(* confirms messages, maintains the per-context Blocked rows and inserts   *)
(* the derived message-confirmed / messages-unblocked events.  One batch   *)
(* runs inside one database transaction (RunAsGroup).                      *)
(*                                                                         *)
(* The committed store is the variables messages, dataAvail, confirmed,    *)
(* events, blocked and offset.  While a batch is being handled the         *)
(* transaction's working copy is the record tx; it replaces the committed  *)
(* store on commit and is dropped on rollback.                             *)
(***************************************************************************)
EXTENDS Integers, Sequences, FiniteSets, TLC

(***************************************************************************)
(* Bounds of the model.                                                    *)
(***************************************************************************)
\* the largest number of events the poller hands to the handler at once
MaxBatch == 3

(***************************************************************************)
(* fftypes: event types and the reserved namespace.                        *)
(***************************************************************************)
EventTypeDataArrivedBroadcast == "data-arrived-broadcast"
EventTypeMessageSequencedBroadcast == "message-sequenced-broadcast"
EventTypeMessageConfirmed == "message-confirmed"
EventTypeMessagesUnblocked == "messages-unblocked"
EventTypeOther == "other"
SystemNamespace == "ff_system"

(***************************************************************************)
(* The messages and data blobs ingestion delivers.  A message row holds    *)
(* the header (namespace, context, group), the database sequence and the   *)
(* data references; none of them changes once the row exists.  M1 needs    *)
(* D1; M2 and M3 both need D2.  The rows come in one of three layouts:     *)
(* the three messages in one context of an application namespace, the      *)
(* same in the system namespace, or M3 in a context of its own.            *)
(***************************************************************************)
Msgs == {"M1", "M2", "M3"}
Data == {"D1", "D2"}
NoGroup == "nil"
\* the messages that events of an unknown type refer to
OtherRefs == {"M1"}

Row(ns, context, sequence, data) ==
    [namespace |-> ns, context |-> context, group |-> NoGroup,
     sequence |-> sequence, data |-> data]

Rows(ns, context3) ==
    [m \in Msgs |-> CASE m = "M1" -> Row(ns, "ctxA", 1, {"D1"})
                      [] m = "M2" -> Row(ns, "ctxA", 2, {"D2"})
                      [] m = "M3" -> Row(ns, context3, 3, {"D2"})]

Layouts == {Rows("ns1", "ctxA"), Rows(SystemNamespace, "ctxA"), Rows("ns1", "ctxB")}

VARIABLES
    messages,   \* the message rows of the store, by id; ingestion stores a
                \* row before any event that leads to it
    dataAvail,  \* ids of the data blobs in the store
    confirmed,  \* message id -> the confirmed timestamp, 0 for null
    events,     \* the event log; an event's sequence is its position
    blocked,    \* the rows of the Blocked table
    offset,     \* the committed offset of the aggregator's poller
    clock,      \* the last timestamp Now() returned to a committed transaction
    pc,         \* "idle", "run" (inside processEvents), "end" (processEvents
                \* returned, RunAsGroup about to commit or roll back), "retry",
                \* "panic" (the handler indexed an empty batch)
    batch,      \* the batch being handled, or to be handled again
    pos,        \* number of events of the batch processEvents has processed
    lookahead,  \* the eventsByRef index of the batch
    tx,         \* the transaction's working copy of the store
    ret,        \* what processEvents returns: [repoll, err]
    redirected  \* history: the messages a committed batch made the blocker of
                \* their context while they were sequenced and complete

MsgNamespace(m) == messages[m].namespace
MsgContext(m) == messages[m].context
MsgGroup(m) == messages[m].group
MsgSequence(m) == messages[m].sequence
MsgData(m) == messages[m].data

\* a data blob is stored in the namespace of the messages that refer to it
DataNamespace(d) == MsgNamespace(CHOOSE m \in Msgs : d \in MsgData(m))

\* the (namespace, context, group) key of the Blocked table
ContextOf(m) == <<MsgNamespace(m), MsgContext(m), MsgGroup(m)>>

vars == <<messages, dataAvail, confirmed, events, blocked, offset, clock, pc,
          batch, pos, lookahead, tx, ret, redirected>>


(***************************************************************************)
(* Values.                                                                 *)
(***************************************************************************)
\* a nil *fftypes.Blocked
NoRow == [id |-> 0, namespace |-> "", context |-> "", group |-> "", message |-> ""]

\* the set of the elements of a sequence
Range(s) == {s[i] : i \in 1..Len(s)}

\* s without its i-th element: append(s[0:i], s[i+1:]...)
RemoveAt(s, i) == [j \in 1..(Len(s) - 1) |-> IF j < i THEN s[j] ELSE s[j + 1]]

\* the messages of S in ascending database sequence: Sort("sequence")
RECURSIVE SortBySequence(_)
SortBySequence(S) ==
    IF S = {} THEN <<>>
    ELSE LET first == CHOOSE m \in S : \A n \in S : MsgSequence(m) <= MsgSequence(n)
         IN  <<first>> \o SortBySequence(S \ {first})

(***************************************************************************)
(* eventsByRef: the lookahead index, reference -> the events of the batch  *)
(* with that reference that have not been processed yet.                   *)
(***************************************************************************)
\* the first loop of processEvents
RECURSIVE BuildLookahead(_)
BuildLookahead(evs) ==
    IF evs = <<>> THEN <<>>
    ELSE LET n    == Len(evs)
             rest == BuildLookahead(SubSeq(evs, 1, n - 1))
             ref  == evs[n].reference
             old  == IF ref \in DOMAIN rest THEN rest[ref] ELSE <<>>
         IN  [r \in (DOMAIN rest) \cup {ref} |->
                 IF r = ref THEN Append(old, evs[n]) ELSE rest[r]]

\* the index asked for the types only, under any reference
hasAnyOf_AnyRef(ebr, ref, types) ==
    \E r \in DOMAIN ebr : \E i \in 1..Len(ebr[r]) : ebr[r][i].type \in types

\* lines 41-51: some entry under ref has one of the types
hasAnyOf(ebr, ref, types) ==
    /\ ref \in DOMAIN ebr
    /\ \E i \in 1..Len(ebr[ref]) : ebr[ref][i].type \in types

\* the places of the index that hold the event with this id
Holders(ebr, eventID) ==
    {<<ref, i>> \in (DOMAIN ebr) \X (1..MaxBatch + 1) :
        i <= Len(ebr[ref]) /\ ebr[ref][i].id = eventID}

\* remove reporting the entry and leaving it in the index
remove_Keep(ebr, eventID) ==
    [ebr |-> ebr, removed |-> Holders(ebr, eventID) # {}]

\* remove drops the first entry it meets with this id; the ids of a batch are
\* distinct, so there is at most one
remove(ebr, eventID) ==
    IF Holders(ebr, eventID) = {} THEN [ebr |-> ebr, removed |-> FALSE]
    ELSE LET h == CHOOSE x \in Holders(ebr, eventID) : TRUE
         IN  [ebr     |-> [ebr EXCEPT ![h[1]] = RemoveAt(@, h[2])],
              removed |-> TRUE]

(***************************************************************************)
(* The store as the handler sees it inside its transaction.  st is the     *)
(* working copy: the fields confirmed, events, blocked and offset are the  *)
(* tables the aggregator writes; clock feeds Now(); calls    *)
(* counts the fallible calls made for the current event and failAt is the  *)
(* call that returns an error (0: none does); err is the error being       *)
(* returned and repoll the boolean returned with it.  The other fields are  *)
(* history: failed (some call of this invocation returned an error),       *)
(* handled (the messages passed to HandleSystemBroadcast), redirected,     *)
(* commits (the offsets passed to commitOffset) and anyRepoll (the OR of   *)
(* the repoll values processEvent returned).                               *)
(***************************************************************************)
\* a call to the store or to the broadcast manager: it may return an error
Call(st) ==
    [st EXCEPT !.calls = st.calls + 1,
               !.err = (st.calls + 1 = st.failAt),
               !.failed = st.failed \/ (st.calls + 1 = st.failAt)]

\* return (repoll, err)
Return(st, repoll) == [st EXCEPT !.repoll = repoll]

\* fftypes.Now(): later than every timestamp in the store
Tick(st) == [st EXCEPT !.clock = st.clock + 1]

\* fftypes.NewUUID() for a Blocked row: an id no row of the table has
NewUUID(st) == CHOOSE i \in 1..(Cardinality(st.blocked) + 1) :
                  \A b \in st.blocked : b.id # i

\* fftypes.NewEvent followed by UpsertEvent(ctx, event, false): the store
\* assigns the next sequence
NewEvent(st, type, ns, ref) ==
    [id |-> Len(st.events) + 1, sequence |-> Len(st.events) + 1,
     type |-> type, namespace |-> ns, reference |-> ref]

UpsertEvent(st, type, ns, ref) ==
    [st EXCEPT !.events = Append(st.events, NewEvent(st, type, ns, ref))]

\* the lookup of the message-sequenced event finding one whatever the store
\* holds
HasEvent_Always(st, ref, type) == TRUE

\* GetEvents with filter reference = ref and type = type, Limit(1): found?
HasEvent(st, ref, type) ==
    \E i \in 1..Len(st.events) :
        st.events[i].reference = ref /\ st.events[i].type = type

\* CheckDataAvailable: every data reference of the message is in the store
CheckDataAvailable(msg) == MsgData(msg) \subseteq dataAvail

\* the query without its confirmed = nil condition
GetMessagesForData_AnyConfirmed(st, ref, ns) ==
    SortBySequence({m \in DOMAIN messages :
        ref \in MsgData(m) /\ MsgNamespace(m) = ns})

\* GetMessagesForData(ref, namespace = ns AND confirmed = nil).Sort("sequence")
GetMessagesForData(st, ref, ns) ==
    SortBySequence({m \in DOMAIN messages :
        ref \in MsgData(m) /\ MsgNamespace(m) = ns /\ st.confirmed[m] = 0})

\* GetBlockedByContext: the row of the (namespace, context, group), or nil
GetBlockedByContext(st, ns, context, group) ==
    LET rows == {b \in st.blocked :
                    b.namespace = ns /\ b.context = context /\ b.group = group}
    IN  IF rows = {} THEN NoRow
        ELSE CHOOSE b \in rows : \A c \in rows : b.id <= c.id

\* the query sorted the other way: the highest sequence comes first
GetMessageRefs_Descending(st, msg) ==
    LET later  == {m \in DOMAIN messages :
                     /\ ContextOf(m) = ContextOf(msg)
                     /\ MsgSequence(m) > MsgSequence(msg)
                     /\ st.confirmed[m] = 0}
        sorted == SortBySequence(later)
    IN  SubSeq(sorted, Len(sorted), Len(sorted))

\* GetMessageRefs(namespace, group, context equal, sequence > seq,
\* confirmed = nil).Sort("sequence").Limit(1)
GetMessageRefs(st, msg) ==
    LET later == {m \in DOMAIN messages :
                    /\ ContextOf(m) = ContextOf(msg)
                    /\ MsgSequence(m) > MsgSequence(msg)
                    /\ st.confirmed[m] = 0}
    IN  SubSeq(SortBySequence(later), 1, IF later = {} THEN 0 ELSE 1)


(***************************************************************************)
(* checkUpdateContextBlocked                                               *)
(***************************************************************************)
\* a row for every incomplete message, whether the context has one or not
ShouldBlock_IgnoreFound(found, complete) == ~complete

\* a row for every message of a context without one, complete or not
ShouldBlock_WhenComplete(found, complete) == found = NoRow

\* line 188: create a row only when there is none and the message is not
\* complete
ShouldBlock(found, complete) == found = NoRow /\ ~complete

\* returns [st, blocked]: the working copy and the row handed back
checkUpdateContextBlocked(st, msg, complete) ==
    LET s1    == Call(st)   \* GetBlockedByContext
        found == GetBlockedByContext(s1, MsgNamespace(msg), MsgContext(msg), MsgGroup(msg))
        \* Created is never read and is left out of the row
        row   == [id |-> NewUUID(s1), namespace |-> MsgNamespace(msg),
                  context |-> MsgContext(msg), group |-> MsgGroup(msg),
                  message |-> msg]
        s3    == Call(s1)   \* UpsertBlocked
    IN  IF s1.err THEN [st |-> s1, blocked |-> NoRow]
        ELSE IF ShouldBlock(found, complete)
        THEN IF s3.err THEN [st |-> s3, blocked |-> NoRow]
             ELSE [st      |-> [s3 EXCEPT !.blocked = s3.blocked \cup {row}],
                   blocked |-> row]
        ELSE [st |-> s1, blocked |-> found]

(***************************************************************************)
(* checkMessageComplete                                                    *)
(***************************************************************************)
\* the gate without the data-completeness check
Gated_IgnoreComplete(complete, blockedBy, msg) ==
    blockedBy # NoRow /\ blockedBy.message # msg

\* the gate without the Blocked row
Gated_IgnoreBlocker(complete, blockedBy, msg) == ~complete

\* line 238: not complete, or the context is blocked by another message
Gated(complete, blockedBy, msg) ==
    ~complete \/ (blockedBy # NoRow /\ blockedBy.message # msg)

\* the confirmed timestamp first, then the system broadcast handler and the
\* message-confirmed event
Confirm_HandlerAfterUpdate(st, msg) ==
    LET s2 == Call(Tick(st))   \* UpdateMessage, confirmed := Now()
        s3 == [s2 EXCEPT !.confirmed[msg] = s2.clock]
        s1 == IF MsgNamespace(msg) = SystemNamespace
              THEN [Call(s3) EXCEPT !.handled = Append(s3.handled, msg)]
              ELSE s3
        s4 == Call(s1)         \* UpsertEvent
    IN  IF s2.err THEN s2
        ELSE IF s1.err THEN s1
        ELSE IF s4.err THEN s4
        ELSE UpsertEvent(s4, EventTypeMessageConfirmed, MsgNamespace(msg), msg)

\* lines 244-265: the system broadcast handler, then the confirmed timestamp
\* and the message-confirmed event
Confirm(st, msg) ==
    LET s1 == IF MsgNamespace(msg) = SystemNamespace
              THEN [Call(st) EXCEPT !.handled = Append(st.handled, msg)]
              ELSE st
        s2 == Call(Tick(s1))   \* UpdateMessage, confirmed := Now()
        s3 == [s2 EXCEPT !.confirmed[msg] = s2.clock]
        s4 == Call(s3)         \* UpsertEvent
    IN  IF s1.err THEN s1
        ELSE IF s2.err THEN s2
        ELSE IF s4.err THEN s4
        ELSE UpsertEvent(s4, EventTypeMessageConfirmed, MsgNamespace(msg), msg)

\* lines 271-312: the confirmed message was the blocker of its context
Unblock(st, msg, blockedBy, ahead) ==
    LET s1          == Call(st)   \* GetMessageRefs
        unblockable == GetMessageRefs(s1, msg)
        unblockMsg  == unblockable[1]
        s2          == Call(s1)   \* UpdateBlocked, or DeleteBlocked
        ready       == /\ HasEvent(s2, unblockMsg, EventTypeMessageSequencedBroadcast)
                       /\ CheckDataAvailable(unblockMsg)
        s3          == [s2 EXCEPT
                          !.blocked = {IF b.id = blockedBy.id
                                       THEN [b EXCEPT !.message = unblockMsg]
                                       ELSE b : b \in s2.blocked},
                          !.redirected = IF ready THEN @ \cup {unblockMsg} ELSE @]
        s4          == Call(s3)   \* UpsertEvent
    IN  IF s1.err THEN Return(s1, FALSE)
        ELSE IF Len(unblockable) > 0
        THEN IF s2.err THEN Return(s2, FALSE)
             ELSE IF hasAnyOf(ahead, unblockMsg,
                              {EventTypeMessageConfirmed, EventTypeMessageSequencedBroadcast})
             THEN Return(s3, FALSE)
             ELSE IF s4.err THEN Return(s4, FALSE)
             ELSE Return(UpsertEvent(s4, EventTypeMessagesUnblocked,
                                     MsgNamespace(msg), unblockMsg), TRUE)
        ELSE IF s2.err THEN Return(s2, FALSE)
        ELSE Return([s2 EXCEPT !.blocked = {b \in s2.blocked : b.id # blockedBy.id}],
                    FALSE)

checkMessageComplete(st, msg, ahead, event) ==
    LET byData  == event.reference # msg
        s1      == IF byData THEN Call(st) ELSE st   \* GetEvents
        s2      == Call(s1)                          \* CheckDataAvailable
        complete == CheckDataAvailable(msg)
        cb      == checkUpdateContextBlocked(s2, msg, complete)
        s3      == cb.st
        blockedBy == cb.blocked
        s4      == Confirm(s3, msg)
        unblock == blockedBy # NoRow /\ blockedBy.message = msg
    IN  IF s1.err THEN Return(s1, FALSE)
        ELSE IF byData /\ ~HasEvent(s1, msg, EventTypeMessageSequencedBroadcast)
        THEN Return(s1, FALSE)
        ELSE IF s2.err THEN Return(s2, FALSE)
        ELSE IF s3.err THEN Return(s3, FALSE)
        ELSE IF Gated(complete, blockedBy, msg) THEN Return(s3, FALSE)
        ELSE IF s4.err THEN Return(s4, FALSE)
        ELSE IF unblock THEN Unblock(s4, msg, blockedBy, ahead)
        ELSE Return(s4, FALSE)

(***************************************************************************)
(* processDataArrived                                                      *)
(***************************************************************************)
\* lines 163-176: the loop over the unconfirmed messages of the data, from
\* the i-th on
RECURSIVE DataArrivedLoop(_, _, _, _, _, _)
DataArrivedLoop(st, msgs, i, repoll, ahead, event) ==
    IF i > Len(msgs) THEN Return(st, repoll)
    ELSE IF hasAnyOf(ahead, msgs[i], {EventTypeMessageSequencedBroadcast})
    THEN DataArrivedLoop(st, msgs, i + 1, repoll, ahead, event)
    ELSE LET r == checkMessageComplete(st, msgs[i], ahead, event)
         IN  IF r.err THEN Return(r, FALSE)
             ELSE DataArrivedLoop(r, msgs, i + 1, repoll \/ r.repoll, ahead, event)

processDataArrived(st, ns, ahead, event) ==
    LET s1   == Call(st)   \* GetMessagesForData
        msgs == GetMessagesForData(s1, event.reference, ns)
    IN  IF s1.err THEN Return(s1, FALSE)
        ELSE DataArrivedLoop(s1, msgs, 1, FALSE, ahead, event)

(***************************************************************************)
(* processEvent                                                            *)
(***************************************************************************)
\* line 140: the message exists and is not confirmed yet
NeedsCheck(st, ref) == ref \in DOMAIN messages /\ st.confirmed[ref] = 0

\* messages-unblocked dispatched like message-sequenced-broadcast
IsSequenced_OrUnblocked(type) ==
    type \in {EventTypeMessageSequencedBroadcast, EventTypeMessagesUnblocked}

\* line 135: the event types that load the message and check it
IsSequenced(type) == type = EventTypeMessageSequencedBroadcast

processEvent(st, batchRefs, event) ==
    LET s1 == Call(st)   \* GetMessageByID
    IN  IF event.type = EventTypeDataArrivedBroadcast
        THEN processDataArrived(st, event.namespace, batchRefs, event)
        ELSE IF IsSequenced(event.type)
        THEN IF s1.err THEN Return(s1, FALSE)
             ELSE IF NeedsCheck(s1, event.reference)
             THEN checkMessageComplete(s1, event.reference, batchRefs, event)
             ELSE Return(s1, FALSE)
        ELSE Return(st, FALSE)


(***************************************************************************)
(* The state machine.                                                      *)
(***************************************************************************)
\* no transaction
NoTx == [confirmed |-> [m \in Msgs |-> 0], events |-> <<>>, blocked |-> {},
         offset |-> 0, clock |-> 0, calls |-> 0, failAt |-> 0, err |-> FALSE,
         repoll |-> FALSE, failed |-> FALSE, handled |-> <<>>,
         redirected |-> {}, commits |-> <<>>, anyRepoll |-> FALSE]

NoReturn == [repoll |-> FALSE, err |-> FALSE]

Init ==
    /\ messages \in Layouts
    /\ dataAvail = {}
    /\ confirmed = [m \in Msgs |-> 0]
    /\ events = <<>>
    /\ blocked = {}
    /\ offset = 0
    /\ clock = 0
    /\ pc = "idle"
    /\ batch = <<>>
    /\ pos = 0
    /\ lookahead = <<>>
    /\ tx = NoTx
    /\ ret = NoReturn
    /\ redirected = {}

handlerVars == <<pc, batch, pos, lookahead, tx, ret>>
aggregatorVars == <<confirmed, blocked, offset, clock, redirected>>

\* ingestion is serialised with the handler's transaction: what it inserts
\* while a batch is handled or waits for its retry is what it inserts before
\* the poll of a shorter batch
Quiet == pc = "idle"

Sequenced(m) == \E i \in 1..Len(events) :
    events[i].reference = m /\ events[i].type = EventTypeMessageSequencedBroadcast

InsertEvent(type, ns, ref) ==
    events' = Append(events, [id |-> Len(events) + 1, sequence |-> Len(events) + 1,
                              type |-> type, namespace |-> ns, reference |-> ref])

\* the envelope of a message is sequenced: its message-sequenced-broadcast
\* event is inserted, in the order of the messages' sequences
SequenceMessage(m) ==
    /\ Quiet
    /\ ~Sequenced(m)
    /\ \A n \in Msgs : MsgSequence(n) < MsgSequence(m) => Sequenced(n)
    /\ InsertEvent(EventTypeMessageSequencedBroadcast, MsgNamespace(m), m)
    /\ UNCHANGED <<messages, dataAvail>>
    /\ UNCHANGED handlerVars
    /\ UNCHANGED aggregatorVars

\* a data blob is stored and its data-arrived-broadcast event inserted
DataArrives(d) ==
    /\ Quiet
    /\ d \notin dataAvail
    /\ dataAvail' = dataAvail \cup {d}
    /\ InsertEvent(EventTypeDataArrivedBroadcast, DataNamespace(d), d)
    /\ UNCHANGED <<messages>>
    /\ UNCHANGED handlerVars
    /\ UNCHANGED aggregatorVars

\* an event of a type the aggregator does not know, one for each message
\* of OtherRefs
OtherEvent(m) ==
    /\ Quiet
    /\ ~\E i \in 1..Len(events) :
           events[i].reference = m /\ events[i].type = EventTypeOther
    /\ InsertEvent(EventTypeOther, MsgNamespace(m), m)
    /\ UNCHANGED <<messages, dataAvail>>
    /\ UNCHANGED handlerVars
    /\ UNCHANGED aggregatorVars

\* processEventRetryAndGroup is invoked with the events evs: RunAsGroup opens
\* the transaction and processEvents builds the lookahead index
InvokeHandler(evs) ==
    /\ pc' = "run"
    /\ batch' = evs
    /\ pos' = 0
    /\ lookahead' = BuildLookahead(evs)
    /\ tx' = [NoTx EXCEPT !.confirmed = confirmed, !.events = events,
                          !.blocked = blocked, !.offset = offset,
                          !.clock = clock, !.redirected = redirected]
    /\ ret' = NoReturn
    /\ UNCHANGED <<messages, dataAvail, events>>
    /\ UNCHANGED aggregatorVars

\* the poller handing the handler whatever its read returned, empty or not
PollBatch_AllowEmpty(n) ==
    /\ pc = "idle"
    /\ offset + n <= Len(events)
    /\ InvokeHandler(SubSeq(events, offset + 1, offset + n))

\* the poller reads up to MaxBatch events above the committed offset in
\* ascending sequence; the events inserted after its read are left for the
\* next batch, so the batch is any prefix of them.  Only a non-empty batch
\* goes to the handler
PollBatch(n) ==
    /\ pc = "idle"
    /\ n > 0
    /\ offset + n <= Len(events)
    /\ InvokeHandler(SubSeq(events, offset + 1, offset + n))

\* the poller's read returns no event: it waits for a wake-up or for the poll
\* timeout and reads again
PollWait ==
    /\ pc = "idle"
    /\ offset = Len(events)
    /\ UNCHANGED vars

\* the poller invokes the handler again with the batch that failed
RetryBatch ==
    /\ pc = "retry"
    /\ InvokeHandler(batch)

\* the loop going on after an error
LoopExit_Never(s) == FALSE

\* lines 122-124: an error ends the loop
LoopExit(s) == s.err

\* lines 121-124: the values processEvents would return after this event
LoopReturn(old, s) == [repoll |-> IF s.err THEN FALSE ELSE s.repoll, err |-> s.err]

\* the working copy as an event's processing starts, the f-th call to fail
Armed(st, f) == [st EXCEPT !.calls = 0, !.failAt = f, !.err = FALSE, !.repoll = FALSE]

\* lines 117-125: one iteration of the loop of processEvents; the f-th
\* fallible call made for the event returns an error (f = 0: none), f up to
\* the number of calls the event makes when none fails, so that the call
\* that is to fail is made
ProcessNextEvent(f) ==
    /\ pc = "run"
    /\ pos < Len(batch)
    /\ LET event   == batch[pos + 1]
           rm      == remove(lookahead, event.id)
           s       == processEvent(Armed(tx, f), rm.ebr, event)
       IN  /\ f = 0 \/ s.failed
           /\ lookahead' = rm.ebr
           /\ tx' = [s EXCEPT !.anyRepoll = tx.anyRepoll \/ s.repoll]
           /\ ret' = LoopReturn(ret, s)
           /\ pc' = IF LoopExit(s) THEN "end" ELSE "run"
           /\ pos' = IF LoopExit(s) THEN pos ELSE pos + 1
    /\ UNCHANGED <<messages, dataAvail, confirmed, events, blocked, offset, clock,
                   batch, redirected>>

\* eventPoller.commitOffset: the offset row is written in the transaction
commitOffset(st, sequence) ==
    LET s1 == [Call(st) EXCEPT !.commits = Append(st.commits, sequence)]
    IN  IF s1.err THEN s1 ELSE [s1 EXCEPT !.offset = sequence]

\* the offset committed to the first event of the batch
CommitSequence_First(evs) == evs[1].sequence

\* the offset committed to the number of events of the batch
CommitSequence_Length(evs) == Len(evs)

\* line 126: the sequence the offset is committed to
CommitSequence(evs) == evs[Len(evs)].sequence

\* lines 126-127: after the loop the offset is committed and processEvents
\* returns
\* events[len(events)-1] of an empty batch is out of range: the handler panics
CommitBatchOffset(f) ==
    /\ pc = "run"
    /\ pos = Len(batch)
    /\ IF batch = <<>>
       THEN /\ f = 0
            /\ pc' = "panic"
            /\ UNCHANGED <<tx, ret>>
       ELSE /\ LET s == commitOffset(Armed(tx, f), CommitSequence(batch))
               IN  /\ tx' = s
                   /\ ret' = [repoll |-> ret.repoll, err |-> s.err]
            /\ pc' = "end"
    /\ UNCHANGED <<messages, dataAvail, confirmed, events, blocked, offset, clock,
                   batch, pos, lookahead, redirected>>

\* RunAsGroup: fn returned nil, the transaction commits
GroupCommit ==
    /\ pc = "end"
    /\ ~ret.err
    /\ confirmed' = tx.confirmed
    /\ events' = tx.events
    /\ blocked' = tx.blocked
    /\ offset' = tx.offset
    /\ redirected' = tx.redirected
    /\ pc' = "idle"
    /\ batch' = <<>>
    /\ pos' = 0
    /\ lookahead' = <<>>
    /\ tx' = NoTx
    /\ ret' = NoReturn
    /\ clock' = tx.clock
    /\ UNCHANGED <<messages, dataAvail>>

\* RunAsGroup: fn returned an error, the transaction rolls back and the error
\* goes to the poller, which keeps the batch
GroupRollback ==
    /\ pc = "end"
    /\ ret.err
    /\ pc' = "retry"
    /\ pos' = 0
    /\ lookahead' = <<>>
    /\ tx' = NoTx
    /\ ret' = NoReturn
    /\ UNCHANGED <<messages, dataAvail, confirmed, events, blocked, offset, clock,
                   batch, redirected>>

\* the number of fallible calls the next event of the batch makes when none
\* fails
EventCalls ==
    IF pc = "run" /\ pos < Len(batch)
    THEN processEvent(Armed(tx, 0), remove(lookahead, batch[pos + 1].id).ebr,
                      batch[pos + 1]).calls
    ELSE 0

Next ==
    \/ \E m \in Msgs : SequenceMessage(m)
    \/ \E d \in Data : DataArrives(d)
    \/ \E m \in OtherRefs : OtherEvent(m)
    \/ \E n \in 0..MaxBatch : PollBatch(n)
    \/ PollWait
    \/ RetryBatch
    \/ \E f \in 0..EventCalls : ProcessNextEvent(f)
    \/ \E f \in 0..1 : CommitBatchOffset(f)
    \/ GroupCommit
    \/ GroupRollback

Spec == Init /\ [][Next]_vars


(***************************************************************************)
(* Properties.                                                             *)
(***************************************************************************)
DerivedOrUnknown == {EventTypeMessageConfirmed, EventTypeMessagesUnblocked, EventTypeOther}

\* the event log up to the committed offset has been processed
Processed(i) == i <= offset

\* the events of the given type and reference in a log
EventsOf(log, type, ref) ==
    {i \in 1..Len(log) : log[i].type = type /\ log[i].reference = ref}

\* the handler is at rest and has processed the whole log
CaughtUp == pc = "idle" /\ offset = Len(events)

\* processEvents returned without an error; the transaction is about to commit
Returned == pc = "end" /\ ~ret.err

SameContext(m, n) == ContextOf(m) = ContextOf(n)

\* C1: in every context the messages are confirmed in the order of their
\* sequences: of two confirmed messages of one (namespace, context, group),
\* the one with the lower sequence has the earlier confirmed timestamp.
C1_ConfirmedInSequenceOrder ==
    \A m, n \in Msgs :
        (/\ SameContext(m, n)
         /\ MsgSequence(m) < MsgSequence(n)
         /\ confirmed[m] # 0
         /\ confirmed[n] # 0) => confirmed[m] < confirmed[n]

\* C2: a message that a confirmation made the blocker of its context while
\* it was sequenced and had all its data is confirmed by the time the
\* aggregator has processed the whole log, the messages-unblocked event
\* included.
C2_UnblockedIsConfirmed ==
    CaughtUp => \A n \in redirected : confirmed[n] # 0

\* C3: a message has one message-confirmed event if it is confirmed and none
\* otherwise, in the store and, between two events, in a transaction no call
\* of which has failed; a confirmed timestamp once set is never cleared or
\* set again.
C3_CountMatches(conf, log) ==
    \A m \in Msgs :
        Cardinality(EventsOf(log, EventTypeMessageConfirmed, m))
            = IF conf[m] # 0 THEN 1 ELSE 0

C3_ConfirmedOnce ==
    /\ [](C3_CountMatches(confirmed, events)
          /\ ((pc \in {"run", "end"} /\ ~tx.failed)
                 => C3_CountMatches(tx.confirmed, tx.events)))
    /\ [][\A m \in Msgs :
            /\ confirmed[m] # 0 => confirmed'[m] = confirmed[m]
            /\ (pc \in {"run", "end"} /\ pc' \in {"run", "end"} /\ tx.confirmed[m] # 0)
                   => tx'.confirmed[m] = tx.confirmed[m]]_vars

\* a message is confirmed after its sequenced event and the event of its data
\* have both been processed
C3_Witness ==
    \E m \in Msgs :
        /\ confirmed[m] # 0
        /\ \E i \in EventsOf(events, EventTypeMessageSequencedBroadcast, m) : Processed(i)
        /\ \E d \in MsgData(m) :
              \E i \in EventsOf(events, EventTypeDataArrivedBroadcast, d) : Processed(i)
        /\ CaughtUp

C5_RepollIsOr == Returned => ret.repoll = tx.anyRepoll

\* C6: there is at most one Blocked row for a (namespace, context, group), in
\* the store and in the transaction.
AtMostOneRow(rows) ==
    \A b, c \in rows :
        (b.namespace = c.namespace /\ b.context = c.context /\ b.group = c.group)
            => b = c

C6_OneRowPerContext == AtMostOneRow(blocked) /\ AtMostOneRow(tx.blocked)

\* two unconfirmed messages of a blocked context have both had their sequenced
\* event processed: the second one found the row
C6_Witness ==
    \E m, n \in Msgs :
        /\ m # n
        /\ SameContext(m, n)
        /\ confirmed[m] = 0 /\ confirmed[n] = 0
        /\ \E i \in EventsOf(events, EventTypeMessageSequencedBroadcast, m) : Processed(i)
        /\ \E i \in EventsOf(events, EventTypeMessageSequencedBroadcast, n) : Processed(i)
        /\ \E b \in blocked : <<b.namespace, b.context, b.group>> = ContextOf(m)

\* C7: in a committed state the message a Blocked row names is unconfirmed,
\* every message of its context with a lower sequence is confirmed and none
\* with a higher sequence is.
C7_BlockerIsHead ==
    \A b \in blocked : \A n \in Msgs :
        /\ confirmed[b.message] = 0
        /\ (SameContext(n, b.message) /\ MsgSequence(n) < MsgSequence(b.message))
               => confirmed[n] # 0
        /\ (SameContext(n, b.message) /\ MsgSequence(n) > MsgSequence(b.message))
               => confirmed[n] = 0

\* C8: every data reference of a confirmed message is in the store.
C8_ConfirmedHasData ==
    \A m \in Msgs :
        /\ confirmed[m] # 0 => CheckDataAvailable(m)
        /\ tx.confirmed[m] # 0 => CheckDataAvailable(m)

\* a message is confirmed in a context where another message waits for data
C8_Witness ==
    \E m, n \in Msgs :
        /\ SameContext(m, n)
        /\ confirmed[m] # 0
        /\ ~CheckDataAvailable(n)
        /\ \E i \in EventsOf(events, EventTypeMessageSequencedBroadcast, n) : Processed(i)

\* C9: when a call fails while a batch is handled, processEvents returns the
\* error and leaves the offset alone, without calling commitOffset unless it
\* is the offset write that failed; the transaction then rolls back to the
\* store as it was, and the batch is handled again from a fresh transaction.
C9_ErrorRollsBack ==
    /\ []((pc = "end" /\ tx.failed)
            => /\ ret.err
               /\ tx.offset = offset
               /\ (pos < Len(batch) => tx.commits = <<>>))
    /\ [][(pc = "end" /\ tx.failed)
            => /\ pc' = "retry"
               /\ batch' = batch
               /\ <<confirmed, events, blocked, offset>>' = <<confirmed, events, blocked, offset>>]_vars
    /\ [][pc = "retry"
            => /\ pc' = "run"
               /\ batch' = batch
               /\ pos' = 0
               /\ lookahead' = BuildLookahead(batch)
               /\ tx'.confirmed = confirmed /\ tx'.events = events
               /\ tx'.blocked = blocked /\ tx'.offset = offset
               /\ ~tx'.failed /\ tx'.commits = <<>>]_vars

\* a call has failed after the transaction confirmed a message and moved or
\* removed a Blocked row
C9_Witness ==
    /\ pc = "end"
    /\ tx.failed
    /\ tx.confirmed # confirmed
    /\ tx.events # events
    /\ tx.blocked # blocked

\* C10: a batch handled without error commits the offset once, after its last
\* event has been processed, to the sequence of that event, the highest of
\* the batch, and the offset reaches the store together with the other
\* writes of the batch.
C10_OffsetCommittedOnce ==
    /\ [](/\ pc = "run" => tx.commits = <<>> /\ tx.offset = offset
          /\ Returned => /\ pos = Len(batch)
                         /\ tx.commits = <<batch[Len(batch)].sequence>>
                         /\ tx.offset = batch[Len(batch)].sequence
                         /\ \A i \in 1..Len(batch) : batch[i].sequence <= tx.offset)
    /\ [][Returned => /\ offset' = tx.offset
                      /\ confirmed' = tx.confirmed
                      /\ events' = tx.events
                      /\ blocked' = tx.blocked]_vars

\* a batch of several events that confirmed a message is about to commit
C10_Witness ==
    /\ Returned
    /\ Len(batch) > 1
    /\ tx.confirmed # confirmed

\* C11: the committed offset never decreases, whether batches commit, fail or
\* are handled again, and the offset a transaction holds is never below it.
C11_OffsetNeverRegresses ==
    /\ [](pc \in {"run", "end"} => tx.offset >= offset)
    /\ [][offset' >= offset]_vars

\* a batch has failed and waits for its retry after an earlier batch moved
\* the offset
C11_Witness == pc = "retry" /\ offset > 0

\* C12: with no event above the committed offset the poller does not invoke
\* the handler: nothing is written, the offset stays and nothing fails.
C12_EmptyBatchIsNoOp ==
    [][(pc = "idle" /\ offset = Len(events))
          => /\ pc' = "idle"
             /\ <<confirmed, blocked, offset, clock>>' = <<confirmed, blocked, offset, clock>>
             /\ SubSeq(events', 1, Len(events)) = events
             /\ \A i \in (Len(events) + 1)..Len(events') :
                   events'[i].type \notin {EventTypeMessageConfirmed,
                                           EventTypeMessagesUnblocked}]_vars

\* the poller finds nothing to read after batches have been handled
C12_Witness == pc = "idle" /\ offset = Len(events) /\ offset > 0

(***************************************************************************)
(* The calls an event makes.  Between two iterations of the loop of        *)
(* processEvents the working copy is tx; the definitions below name the    *)
(* event the next iteration takes, the lookahead it runs with and the      *)
(* calls of checkMessageComplete it makes when no store call fails.        *)
(***************************************************************************)
AtEvent == pc = "run" /\ pos < Len(batch)

ThisEvent == batch[pos + 1]

\* the events of the batch after the one being processed
LaterEvents == SubSeq(batch, pos + 2, Len(batch))

Ahead == remove(lookahead, ThisEvent.id).ebr

\* the rows of a message's (namespace, context, group) in a table
RowsFor(rows, m) ==
    {b \in rows : <<b.namespace, b.context, b.group>> = ContextOf(m)}

\* the events a call appended to the log
Appended(before, after) == SubSeq(after.events, Len(before.events) + 1, Len(after.events))

\* the call changed nothing in the store
StoreUntouched(before, after) ==
    /\ after.confirmed = before.confirmed
    /\ after.events = before.events
    /\ after.blocked = before.blocked

RECURSIVE LoopCalls(_, _, _)
LoopCalls(st, msgs, i) ==
    IF i > Len(msgs) THEN {}
    ELSE IF hasAnyOf(Ahead, msgs[i], {EventTypeMessageSequencedBroadcast})
    THEN LoopCalls(st, msgs, i + 1)
    ELSE {[st |-> st, msg |-> msgs[i]]}
         \cup LoopCalls(checkMessageComplete(st, msgs[i], Ahead, ThisEvent), msgs, i + 1)

\* the (working copy, message) pairs checkMessageComplete is called with
\* while ThisEvent is processed
CheckCalls ==
    LET s1 == Call(Armed(tx, 0))
    IN  IF ThisEvent.type = EventTypeDataArrivedBroadcast
        THEN LoopCalls(s1, GetMessagesForData(s1, ThisEvent.reference, ThisEvent.namespace), 1)
        ELSE IF IsSequenced(ThisEvent.type) /\ NeedsCheck(s1, ThisEvent.reference)
        THEN {[st |-> s1, msg |-> ThisEvent.reference]}
        ELSE {}

\* what the call returns when no store call fails
Checked(c) == checkMessageComplete(c.st, c.msg, Ahead, ThisEvent)

\* C13: a data-arrived event leaves a message of the data that has no
\* message-sequenced event in the store unconfirmed and creates or changes no
\* Blocked row for it; the message-sequenced event of a message whose data is
\* all available and whose context no other message blocks confirms it.
C13_DataFirstJoin ==
    [][AtEvent =>
        /\ ThisEvent.type = EventTypeDataArrivedBroadcast =>
              /\ \A m \in Msgs :
                    (/\ ThisEvent.reference \in MsgData(m)
                     /\ EventsOf(tx.events, EventTypeMessageSequencedBroadcast, m) = {})
                    => tx'.confirmed[m] = 0
              /\ (\A m \in Msgs :
                    ThisEvent.reference \in MsgData(m)
                    => EventsOf(tx.events, EventTypeMessageSequencedBroadcast, m) = {})
                 => tx'.blocked = tx.blocked /\ tx'.events = tx.events
              /\ \A c \in CheckCalls :
                    EventsOf(c.st.events, EventTypeMessageSequencedBroadcast, c.msg) = {}
                    => StoreUntouched(c.st, Checked(c)) /\ ~Checked(c).repoll
        /\ \A m \in Msgs :
              (/\ ThisEvent.type = EventTypeMessageSequencedBroadcast
               /\ ThisEvent.reference = m
               /\ tx.confirmed[m] = 0
               /\ MsgData(m) \subseteq dataAvail
               /\ \A b \in RowsFor(tx.blocked, m) : b.message = m
               /\ ~tx'.err)
              => /\ tx'.confirmed[m] # 0
                 /\ \E i \in (Len(tx.events) + 1)..Len(tx'.events) :
                       /\ tx'.events[i].type = EventTypeMessageConfirmed
                       /\ tx'.events[i].reference = m]_vars

\* the data of M arrived and its event was processed while M was not
\* sequenced: nothing was confirmed and no row made; now M's
\* message-sequenced event is about to be processed
C13_Witness ==
    /\ AtEvent
    /\ ThisEvent.type = EventTypeMessageSequencedBroadcast
    /\ ThisEvent.reference \in Msgs
    /\ MsgData(ThisEvent.reference) \subseteq dataAvail
    /\ tx.blocked = {}
    /\ \A m \in Msgs : tx.confirmed[m] = 0
    /\ \E i \in 1..offset :
          /\ events[i].type = EventTypeDataArrivedBroadcast
          /\ events[i].reference \in MsgData(ThisEvent.reference)

\* lines 117-125 from the i-th event of a batch on, no store call failing;
\* with useLookahead false processEvent is given an empty index, so that
\* hasAnyOf is false whatever is asked: processDataArrived checks every
\* message and the unblock step always emits messages-unblocked
RECURSIVE processEventsFrom(_, _, _, _, _)
processEventsFrom(st, ebr, evs, i, useLookahead) ==
    IF i > Len(evs) THEN st
    ELSE LET rm == remove(ebr, evs[i].id)
             s  == processEvent(Armed(st, 0), IF useLookahead THEN rm.ebr ELSE <<>>, evs[i])
         IN  processEventsFrom(s, rm.ebr, evs, i + 1, useLookahead)

\* what a batch leaves behind, derived events aside: the confirmed messages
\* and the (namespace, context, group, message) of the Blocked rows
Outcome(st) ==
    [confirmed |-> {m \in Msgs : st.confirmed[m] # 0},
     blocked   |-> {<<b.namespace, b.context, b.group, b.message>> : b \in st.blocked}]

\* C14: handling a batch with the lookahead and handling it with the lookahead
\* ignored leave the same messages confirmed and the same Blocked rows.
C14_LookaheadIsOptimisation ==
    (pc = "run" /\ pos = 0)
    => Outcome(processEventsFrom(tx, lookahead, batch, 1, TRUE))
       = Outcome(processEventsFrom(tx, lookahead, batch, 1, FALSE))

\* the gate as the claims state it: the message's data is all available and
\* the row of its context, if there is one, names it
PassesGate(st, m) ==
    /\ MsgData(m) \subseteq dataAvail
    /\ \A b \in RowsFor(st.blocked, m) : b.message = m

\* the call set the message's confirmed timestamp or inserted a
\* message-confirmed event for it
ConfirmedBy(before, after, m) ==
    \/ after.confirmed[m] # before.confirmed[m]
    \/ \E i \in 1..Len(Appended(before, after)) :
          /\ Appended(before, after)[i].type = EventTypeMessageConfirmed
          /\ Appended(before, after)[i].reference = m

\* nothing changed but, possibly, one new Blocked row naming m where the
\* context had none
OnlyBlocks(before, after, m) ==
    /\ after.confirmed = before.confirmed
    /\ after.events = before.events
    /\ \/ after.blocked = before.blocked
       \/ /\ RowsFor(before.blocked, m) = {}
          /\ \E b \in after.blocked \ before.blocked :
                /\ after.blocked = before.blocked \cup {b}
                /\ b.message = m
                /\ <<b.namespace, b.context, b.group>> = ContextOf(m)

\* C15: checkMessageComplete confirms a message only when its data is
\* complete and the Blocked row of its context is absent or names it; in every
\* other case it returns (false, nil) and has changed nothing except,
\* possibly, created a Blocked row naming the message.
C15_Gating ==
    AtEvent =>
        \A c \in CheckCalls :
            LET r   == Checked(c)
                new == Appended(c.st, r)
            IN  /\ ConfirmedBy(c.st, r, c.msg) =>
                      /\ PassesGate(c.st, c.msg)
                      /\ r.confirmed[c.msg] # 0
                      /\ \E i \in 1..Len(new) :
                            /\ new[i].type = EventTypeMessageConfirmed
                            /\ new[i].reference = c.msg
                /\ ~PassesGate(c.st, c.msg) =>
                      /\ ~r.repoll
                      /\ ~r.err
                      /\ OnlyBlocks(c.st, r, c.msg)

\* a message with all its data is checked while the row of its context names
\* another message
C15_Witness ==
    /\ AtEvent
    /\ \E c \in CheckCalls :
          /\ MsgData(c.msg) \subseteq dataAvail
          /\ \E b \in RowsFor(c.st.blocked, c.msg) : b.message # c.msg
          /\ Checked(c).confirmed[c.msg] = 0

\* the working copies checkUpdateContextBlocked can be called with: the one
\* between two events and the ones the checks of the next event start from
BlockedCallStates ==
    {Armed(tx, 0)} \cup (IF AtEvent THEN {c.st : c \in CheckCalls} ELSE {})

\* C16: checkUpdateContextBlocked never modifies an existing Blocked row: a
\* row of the message's (namespace, context, group) is returned as it is,
\* whatever the message and its completeness; without one, a row naming the
\* message is created and returned when the message is not complete, and
\* nothing is created or returned when it is.
C16_BlockedRowFrame ==
    pc = "run" =>
        \A st \in BlockedCallStates : \A m \in Msgs : \A complete \in BOOLEAN :
            LET r    == checkUpdateContextBlocked(st, m, complete)
                rows == RowsFor(st.blocked, m)
            IN  /\ r.st.confirmed = st.confirmed
                /\ r.st.events = st.events
                /\ ~r.st.err
                /\ IF rows # {}
                   THEN r.blocked \in rows /\ r.st.blocked = st.blocked
                   ELSE IF ~complete
                   THEN /\ r.blocked \notin st.blocked
                        /\ r.blocked.message = m
                        /\ <<r.blocked.namespace, r.blocked.context, r.blocked.group>>
                              = ContextOf(m)
                        /\ \A b \in st.blocked : b.id # r.blocked.id
                        /\ r.st.blocked = st.blocked \cup {r.blocked}
                   ELSE r.blocked = NoRow /\ r.st.blocked = st.blocked

\* an incomplete message is checked while its context has a row naming
\* another message, and the call hands that row back
C16_Witness ==
    /\ AtEvent
    /\ \E c \in CheckCalls :
          /\ ~(MsgData(c.msg) \subseteq dataAvail)
          /\ \E b \in RowsFor(c.st.blocked, c.msg) :
                /\ b.message # c.msg
                /\ checkUpdateContextBlocked(c.st, c.msg, FALSE).blocked = b

\* the unconfirmed messages of m's (namespace, context, group) with a
\* sequence above m's
Successors(st, m) ==
    {n \in Msgs : /\ SameContext(m, n)
                  /\ MsgSequence(n) > MsgSequence(m)
                  /\ st.confirmed[n] = 0}

\* the one of lowest sequence
Lowest(ms) == CHOOSE n \in ms : \A k \in ms : MsgSequence(n) <= MsgSequence(k)

\* the call appended a messages-unblocked event
EmitsUnblocked(before, after) ==
    \E i \in 1..Len(Appended(before, after)) :
        Appended(before, after)[i].type = EventTypeMessagesUnblocked

\* C17: when the message the Blocked row names is confirmed, the row is
\* redirected to the unconfirmed message of lowest sequence above it in the
\* same (namespace, context, group), and deleted when there is none; when a
\* message is confirmed with no Blocked row in its context, no row is created,
\* updated or deleted and no messages-unblocked event is inserted.
C17_UnblockStep ==
    AtEvent =>
        \A c \in CheckCalls :
            LET r    == Checked(c)
                rows == RowsFor(c.st.blocked, c.msg)
                next == Successors(r, c.msg)
            IN  ConfirmedBy(c.st, r, c.msg) =>
                    IF \E b \in rows : b.message = c.msg
                    THEN \E b \in rows :
                            r.blocked =
                               (c.st.blocked \ {b})
                               \cup (IF next = {} THEN {}
                                     ELSE {[b EXCEPT !.message = Lowest(next)]})
                    ELSE /\ r.blocked = c.st.blocked
                         /\ ~EmitsUnblocked(c.st, r)

\* the message the row names is confirmed while two messages of its context
\* wait behind it
C17_Witness ==
    /\ AtEvent
    /\ \E c \in CheckCalls :
          /\ ConfirmedBy(c.st, Checked(c), c.msg)
          /\ \E b \in RowsFor(c.st.blocked, c.msg) : b.message = c.msg
          /\ Cardinality(Successors(Checked(c), c.msg)) = 2

\* an event still to come in the batch has this reference and the type
\* message-confirmed or message-sequenced-broadcast
StillToCome(ref) ==
    \E i \in 1..Len(LaterEvents) :
        /\ LaterEvents[i].reference = ref
        /\ LaterEvents[i].type \in {EventTypeMessageConfirmed,
                                    EventTypeMessageSequencedBroadcast}

\* the confirmation of c.msg redirects the row of its context to a successor
Redirects(c) ==
    /\ ConfirmedBy(c.st, Checked(c), c.msg)
    /\ \E b \in RowsFor(c.st.blocked, c.msg) : b.message = c.msg
    /\ Successors(Checked(c), c.msg) # {}

\* C18: when a confirmation redirects the blocker to its successor N, one
\* messages-unblocked event referencing N is inserted and repoll is returned
\* true exactly when no later event of the batch has reference N and type
\* message-confirmed or message-sequenced-broadcast; when one has, no
\* messages-unblocked event is inserted and repoll is returned false.
C18_UnblockedUnlessAhead ==
    AtEvent =>
        \A c \in CheckCalls :
            Redirects(c) =>
                LET r   == Checked(c)
                    n   == Lowest(Successors(r, c.msg))
                    new == Appended(c.st, r)
                    unb == {i \in 1..Len(new) : new[i].type = EventTypeMessagesUnblocked}
                IN  IF StillToCome(n)
                    THEN unb = {} /\ ~r.repoll
                    ELSE /\ Cardinality(unb) = 1
                         /\ \A i \in unb : new[i].reference = n
                         /\ r.repoll

\* the blocker is confirmed and redirected to a successor whose
\* message-sequenced event comes later in the batch
C18_Witness ==
    /\ AtEvent
    /\ \E c \in CheckCalls :
          /\ Redirects(c)
          /\ StillToCome(Lowest(Successors(Checked(c), c.msg)))
          /\ ~EmitsUnblocked(c.st, Checked(c))

\* the events of a sequence that have the reference, in their order
RECURSIVE WithReference(_, _)
WithReference(evs, ref) ==
    IF evs = <<>> THEN <<>>
    ELSE IF Head(evs).reference = ref
    THEN <<Head(evs)>> \o WithReference(Tail(evs), ref)
    ELSE WithReference(Tail(evs), ref)

\* the events of a sequence but the one with the id
RECURSIVE WithoutID(_, _)
WithoutID(evs, id) ==
    IF evs = <<>> THEN <<>>
    ELSE IF Head(evs).id = id THEN WithoutID(Tail(evs), id)
    ELSE <<Head(evs)>> \o WithoutID(Tail(evs), id)

\* what the index holds under a reference
Entry(ebr, ref) == IF ref \in DOMAIN ebr THEN ebr[ref] ELSE <<>>

\* the index holds exactly these events, grouped by reference in their order
Indexes(ebr, evs) ==
    /\ DOMAIN ebr \subseteq Msgs \cup Data
    /\ \A ref \in Msgs \cup Data : Entry(ebr, ref) = WithReference(evs, ref)

AskedTypes ==
    {{t} : t \in {EventTypeDataArrivedBroadcast, EventTypeMessageSequencedBroadcast,
                  EventTypeMessageConfirmed, EventTypeMessagesUnblocked, EventTypeOther}}
    \cup {{}, {EventTypeMessageConfirmed, EventTypeMessageSequencedBroadcast}}

\* C19: while the i-th event of a batch is processed the lookahead holds
\* exactly the events i+1..n of the batch, grouped by reference in batch
\* order; hasAnyOf(ref, types) is true iff a later event of the batch has the
\* reference and one of the types; remove(id) deletes the one entry with the id,
\* returns true iff there was one and leaves the other entries as they were.
C19_LookaheadInvariant ==
    pc = "run" =>
        LET rest  == SubSeq(batch, pos + 1, Len(batch))
            ahead == Ahead
            later == LaterEvents
        IN  /\ Indexes(lookahead, rest)
            /\ AtEvent =>
                  /\ remove(lookahead, ThisEvent.id).removed
                  /\ Indexes(ahead, later)
                  /\ \A ref \in Msgs \cup Data : \A types \in AskedTypes :
                        hasAnyOf(ahead, ref, types)
                        <=> \E i \in 1..Len(later) :
                               /\ later[i].reference = ref
                               /\ later[i].type \in types
            /\ \A id \in {0} \cup {batch[i].id : i \in 1..Len(batch)} :
                  LET r == remove(lookahead, id)
                  IN  /\ r.removed <=> \E i \in 1..Len(rest) : rest[i].id = id
                      /\ Indexes(r.ebr, WithoutID(rest, id))

\* the second event of a batch of three is about to be processed and the two
\* events left have the same reference
C19_Witness ==
    /\ pc = "run"
    /\ pos = 1
    /\ Len(batch) = 3
    /\ batch[2].reference = batch[3].reference
    /\ Len(Entry(lookahead, batch[2].reference)) = 2

\* the call c with its k-th store or handler call returning an error
CheckedFailing(c, k) ==
    checkMessageComplete([c.st EXCEPT !.failAt = k], c.msg, Ahead, ThisEvent)

\* the message of the call reaches the confirmation: its envelope is
\* sequenced, and the gate lets it through
ReachesConfirm(c) ==
    /\ \/ ThisEvent.reference = c.msg
       \/ EventsOf(c.st.events, EventTypeMessageSequencedBroadcast, c.msg) # {}
    /\ PassesGate(c.st, c.msg)

\* the calls of c at which the system broadcast handler has been invoked when
\* that call returns an error: the least is the handler's own
HandlerCalls(c) ==
    {k \in (c.st.calls + 1)..Checked(c).calls :
        CheckedFailing(c, k).handled # c.st.handled}

\* C20: a message of the system namespace that passes the gate is handed to
\* the system broadcast handler before it is marked confirmed and before its
\* message-confirmed event is inserted; when the handler returns an error the
\* message is not confirmed, no event is inserted, the Blocked row is neither
\* redirected nor deleted and the error is returned.  The handler is not
\* invoked for a message of another namespace or one the gate holds back.
C20_SystemHandlerFirst ==
    AtEvent =>
        /\ \A c \in CheckCalls :
              LET r       == Checked(c)
                  failing == [k \in (c.st.calls + 1)..r.calls |-> CheckedFailing(c, k)]
                  handler == {k \in DOMAIN failing : failing[k].handled # c.st.handled}
              IN  /\ r.handled =
                        IF MsgNamespace(c.msg) = SystemNamespace /\ ReachesConfirm(c)
                        THEN Append(c.st.handled, c.msg)
                        ELSE c.st.handled
                  /\ \A k \in DOMAIN failing :
                        (/\ MsgNamespace(c.msg) = SystemNamespace
                         /\ ConfirmedBy(c.st, failing[k], c.msg))
                        => failing[k].handled = Append(c.st.handled, c.msg)
                  /\ handler # {} =>
                        LET k == CHOOSE h \in handler : \A j \in handler : h <= j
                        IN  /\ failing[k].err
                            /\ failing[k].calls = k
                            /\ ~failing[k].repoll
                            /\ StoreUntouched(c.st, failing[k])
        /\ LET s == processEvent(Armed(tx, 0), Ahead, ThisEvent)
           IN  Len(s.handled) - Len(tx.handled)
                  = Cardinality({c \in CheckCalls : Checked(c).handled # c.st.handled})

\* a message of the system namespace that the Blocked row names passes the
\* gate with a successor waiting behind it
C20_Witness ==
    /\ AtEvent
    /\ \E c \in CheckCalls :
          /\ MsgNamespace(c.msg) = SystemNamespace
          /\ HandlerCalls(c) # {}
          /\ Redirects(c)

=============================================================================
